---- MODULE Spec2Model ----
(***************************************************************************)
(* A model of the priority-curve revenue optimizer of Priority_Scheme:     *)
(*   Orders.py     the order table and its derived columns, the latitude   *)
(*                 band scheduler and the revenue sum                      *)
(*   Optimizer.py  the curve validity check, the cost function and the     *)
(*                 multi-start driver produce_optimized_curves             *)
(*                                                                         *)
(* Numbers.  Python floats are modelled by scaled integers:                *)
(*   priorities, scores and coefficients in units of 1/Resolution,         *)
(*   cloud cover fractions in units of 1/CCRes,                            *)
(*   latitudes in units of 1/LatRes degree,                                *)
(*   objective values (result.fun, Total) in hundredths after round(., 2). *)
(* Rows and scenarios are numbered from 1 (pandas: from 0).                *)
(*                                                                         *)
(* produce_curve's basis has three polynomial terms (constant, linear,     *)
(* quadratic about 15) and four transcendental ones (exp, sqrt, sin, cos). *)
(* Every coefficient vector of the model carries 0 at the transcendental   *)
(* positions, so the curve is evaluated exactly in integer arithmetic.     *)
(***************************************************************************)
EXTENDS Integers, Sequences, FiniteSets, TLC

\* ------------------------------------------------------------------ bounds
NumOrders == 3          \* rows of the order table
NumScenarios == 2       \* parameters["number of weather scenarios"]
Resolution == 2         \* priority values are multiples of 1/Resolution
CCRes == 4              \* cloud cover fractions are multiples of 1/CCRes
LatRes == 4             \* latitudes are multiples of 1/LatRes degree
MaxOffset == 1          \* curve extrema lie within MaxOffset/Resolution of a round value
NumCases == 2           \* rows of the starting cases csv

\* ------------------------------------------------------- program constants
pri_max == 100          \* curve_check: pri_max
GridLen == 50           \* curve_check: range(50)
CurveCenter == 15       \* produce_curve: (x - 15)**2
ScoreTop == 100         \* priority_to_score: 100 - priority
BandWidth == 1          \* schedule_orders: Latitude < latitude + 1
BandStep == 2           \* schedule_orders: latitude += 2

VARIABLES
    active_orders,          \* Orders.active_orders: the table, a sequence of rows
    min_latitude,           \* Orders.min_latitude
    max_latitude,           \* Orders.max_latitude
    weather_scenarios,      \* Optimizer.weather_scenarios
    scenario_order,         \* the order in which cost_function visits the scenarios
    cf_pc,                  \* position inside cost_function
    coefficients,           \* cost_function's argument
    multiplyer,             \* cost_function's local multiplyer
    pos,                    \* index into scenario_order of the current weather_column
    average_dollar_total,   \* cost_function's accumulator
    scenario_dollars,       \* weather column |-> what total_dollars returned for it in this call
    returned,               \* the value cost_function returned (read when cf_pc = "done")
    func,                   \* curve_check's argument, when it is checked on its own
    case_inputs,            \* Optimizer.case_inputs: the starting coefficient vectors
    case_results,           \* Optimizer.case_results: rows [coefs, Total]
    initial_case_count,     \* Optimizer.initial_case_count
    starting_point,         \* the row produce_optimized_curves' for loop is at
    run_pc,                 \* position inside produce_optimized_curves
    result,                 \* what minimize returned last
    searched,               \* the calls of minimize made so far: [row, x0]
    prep_pc,                \* position inside Orders.__init__
    weather_type,           \* Orders.weather_type
    predicted_cc_uncertainty, \* Orders.predicted_cc_uncertainty, in hundredths
    cloud_cover,            \* Orders.cloud_cover: the PWOT csv read last, cell |-> Value
    column_number,          \* the column populate_actual_cc / populate_predicted_cc is at
    printed,                \* what find_cloud_cover has printed: the cells it missed
    evaluations,            \* cost_function calls in progress side by side: their locals
    evaluated               \* the cost_function calls that returned: coefficients and value

vars == << active_orders, min_latitude, max_latitude, weather_scenarios,
           scenario_order, cf_pc, coefficients, multiplyer, pos,
           average_dollar_total, scenario_dollars, returned, func,
           case_inputs, case_results, initial_case_count, starting_point,
           run_pc, result, searched, prep_pc, weather_type,
           predicted_cc_uncertainty, cloud_cover, column_number, printed,
           evaluations, evaluated >>

\* The state of produce_optimized_curves
run_vars == << case_inputs, case_results, initial_case_count, starting_point,
               run_pc, result, searched >>

\* The state of one cost_function call
cf_vars == << cf_pc, coefficients, multiplyer, pos, average_dollar_total,
              scenario_dollars, returned >>

\* What load_data, prepare_dataframe and the parameters fix for the whole run
\* The state of Orders.__init__ (load_data, prepare_dataframe)
prep_vars == << prep_pc, weather_type, predicted_cc_uncertainty, cloud_cover,
               column_number, printed >>

\* What Orders.__init__ and Optimizer.__init__ leave behind, the table aside
loaded == << min_latitude, max_latitude, weather_scenarios, scenario_order,
            prep_vars >>

\* ----------------------------------------------------------------- helpers
SetMax(S) == CHOOSE m \in S : \A x \in S : x <= m
SetMin(S) == CHOOSE m \in S : \A x \in S : m <= x

\* the quotient cut off instead of rounded up
FloorDiv(n, d) == n \div d

\* ceil(n / d) for d > 0
CeilDiv(n, d) == -((-n) \div d)

\* Python's None and a float's nan: values apart from every number the model
\* computes
NaN == -(2 ^ 30)
None == NaN - 1
isnan(x) == x = NaN

\* A float's inf and -inf
Inf == 2 ^ 30
MinusInf == None - 1
isinf(x) == x = Inf \/ x = MinusInf

\* ------------------------------------------------- Optimizer.produce_curve
\* exp(0.04*x), x**(1/2), sin(.2*(x-10)) and cos(.2*(x-10)) for x = 0..49, to
\* the nearest whole number
ExpTerm ==
    << 1, 1, 1, 1, 1, 1, 1, 1, 1, 1,
       1, 2, 2, 2, 2, 2, 2, 2, 2, 2,
       2, 2, 2, 3, 3, 3, 3, 3, 3, 3,
       3, 3, 4, 4, 4, 4, 4, 4, 5, 5,
       5, 5, 5, 6, 6, 6, 6, 7, 7, 7 >>
SqrtTerm ==
    << 0, 1, 1, 2, 2, 2, 2, 3, 3, 3,
       3, 3, 3, 4, 4, 4, 4, 4, 4, 4,
       4, 5, 5, 5, 5, 5, 5, 5, 5, 5,
       5, 6, 6, 6, 6, 6, 6, 6, 6, 6,
       6, 6, 6, 7, 7, 7, 7, 7, 7, 7 >>
SinTerm ==
    << -1, -1, -1, -1, -1, -1, -1, -1, 0, 0,
       0, 0, 0, 1, 1, 1, 1, 1, 1, 1,
       1, 1, 1, 1, 0, 0, 0, 0, 0, -1,
       -1, -1, -1, -1, -1, -1, -1, -1, -1, 0,
       0, 0, 0, 0, 0, 1, 1, 1, 1, 1 >>
CosTerm ==
    << 0, 0, 0, 0, 0, 1, 1, 1, 1, 1,
       1, 1, 1, 1, 1, 1, 0, 0, 0, 0,
       0, -1, -1, -1, -1, -1, -1, -1, -1, -1,
       -1, 0, 0, 0, 0, 0, 0, 1, 1, 1,
       1, 1, 1, 1, 1, 1, 1, 0, 0, 0 >>

\* The lambda produce_curve returns, applied to x; the value is in units of
\* 1/Resolution, as are the coefficients.
Curve(coefs, x) ==
    coefs[1] + (coefs[2] * x)
             + (coefs[3] * ExpTerm[x + 1])
             + (coefs[4] * SqrtTerm[x + 1])
             + (coefs[5] * (x - CurveCenter) * (x - CurveCenter))
             + (coefs[6] * SinTerm[x + 1])
             + (coefs[7] * CosTerm[x + 1])

\* The arguments a curve is applied to: curve_check's grid range(50), which
\* holds every DollarPerSquare of the model's tables
CurveArgs == 0..(GridLen - 1)

\* nan taken for 1
nan_to_one(x) == IF isnan(x) THEN 1 ELSE x

\* "0 if isnan(x) else x"
nan_to_zero(x) == IF isnan(x) THEN 0 ELSE x

\* The signs of sin(.2*(x-10)) and cos(.2*(x-10)) for x = 0..49
SinSign(x) ==
    IF x = 10 THEN 0
    ELSE IF x < 10 THEN -1
    ELSE IF x <= 25 THEN 1
    ELSE IF x <= 41 THEN -1 ELSE 1
CosSign(x) ==
    IF x <= 2 THEN -1
    ELSE IF x <= 17 THEN 1
    ELSE IF x <= 33 THEN -1 ELSE 1

\* The sign of what the lambda multiplies coefficient i by at x
BasisSign(i, x) ==
    IF i = 2 \/ i = 4 THEN (IF x = 0 THEN 0 ELSE 1)
    ELSE IF i = 5 THEN (IF x = CurveCenter THEN 0 ELSE 1)
    ELSE IF i = 6 THEN SinSign(x)
    ELSE IF i = 7 THEN CosSign(x)
    ELSE 1

\* coefficient * basis for an infinite coefficient: inf, -inf, or nan (inf * 0)
inf_term(coef, sign) ==
    IF sign = 0 THEN NaN
    ELSE IF (coef = Inf) = (sign > 0) THEN Inf ELSE MinusInf

\* The lambda applied to x in float arithmetic when some coefficient is
\* infinite: nan if a term is nan or inf meets -inf, else the infinity
float_curve(coefs, x) ==
    LET terms == { inf_term(coefs[i], BasisSign(i, x)) :
                     i \in { j \in DOMAIN coefs : isinf(coefs[j]) } }
    IN  IF NaN \in terms \/ (Inf \in terms /\ MinusInf \in terms) THEN NaN
        ELSE IF Inf \in terms THEN Inf
        ELSE MinusInf

\* produce_curve: the curve of a coefficient vector, as a function
produce_curve(coefs) ==
    LET clean == [ i \in DOMAIN coefs |-> nan_to_zero(coefs[i]) ]
    IN  IF \A i \in DOMAIN clean : ~isinf(clean[i])
        THEN [ x \in CurveArgs |-> Curve(clean, x) ]
        ELSE [ x \in CurveArgs |-> float_curve(clean, x) ]

\* --------------------------------------------------- Optimizer.curve_check
\* all_values after n rounds of "for i in range(50): all_values.append(func(i))"
RECURSIVE all_values(_, _)
all_values(curve, n) ==
    IF n = 0 THEN << >>
    ELSE Append(all_values(curve, n - 1), curve[n - 1])

SeqRange(s) == { s[i] : i \in 1..Len(s) }

\* curve_check with both multiplyers starting at 0 and the result floored at 1
curve_check_from_zero(curve) ==
    LET values  == SeqRange(all_values(curve, GridLen))
        max_val == SetMax(values)
        min_val == SetMin(values)
        over    == IF max_val > pri_max * Resolution
                   THEN max_val - pri_max * Resolution ELSE 0
        under   == IF min_val < 0 THEN -min_val ELSE 0
    IN  IF over = 0 /\ under = 0 THEN 1
        ELSE CeilDiv(over * over + under * under, 2 * Resolution * Resolution)

\* ceil((max_multiplyer**2 + min_multiplyer**2)/2); both multiplyers are held
\* in units of 1/Resolution, so the quotient is taken over 2 * Resolution^2.
curve_check(curve) ==
    LET values  == SeqRange(all_values(curve, GridLen))
        max_val == SetMax(values)
        min_val == SetMin(values)
        max_multiplyer == IF max_val > pri_max * Resolution
                          THEN max_val - pri_max * Resolution
                          ELSE 1 * Resolution
        min_multiplyer == IF min_val < 0 THEN -min_val ELSE 1 * Resolution
    IN  CeilDiv(max_multiplyer * max_multiplyer + min_multiplyer * min_multiplyer,
                2 * Resolution * Resolution)

\* ------------------------------------------------------------- Orders.py
\* a priority written only where none was written before
populate_priority_once(table, curve) ==
    [ i \in 1..Len(table) |->
        IF table[i].New_Priority # 0 THEN table[i]
        ELSE [ table[i] EXCEPT
                 !.New_Priority = curve[table[i].DollarPerSquare] ] ]

\* populate_priority: New_Priority = func(DollarPerSquare) for every row
populate_priority(table, curve) ==
    [ i \in 1..Len(table) |->
        [ table[i] EXCEPT !.New_Priority = curve[table[i].DollarPerSquare] ] ]

\* the score held at 0 for a priority above 100
priority_to_score_floored(priority) ==
    IF priority > ScoreTop * Resolution THEN 0
    ELSE ScoreTop * Resolution - priority

\* priority_to_score: 100 - priority
priority_to_score(priority) == ScoreTop * Resolution - priority

\* populate_score
populate_score(table) ==
    [ i \in 1..Len(table) |->
        [ table[i] EXCEPT !.Score = priority_to_score(table[i].New_Priority) ] ]

\* the reset left out: the flags of the table are kept
reset_nothing(table) == table

\* the reset taking the cloud limit along
reset_scheduled_and_limit(table) ==
    [ i \in 1..Len(table) |->
        [ table[i] EXCEPT !.Scheduled = FALSE, !.MAX_CC = 0 ] ]

\* cost_function: self.orders.active_orders.Scheduled = False
reset_scheduled(table) ==
    [ i \in 1..Len(table) |-> [ table[i] EXCEPT !.Scheduled = FALSE ] ]

\* populate_total_score: (1 - Predicted_w) * Score, in units of
\* 1/(CCRes * Resolution)
populate_total_score(table, w) ==
    [ i \in 1..Len(table) |->
        [ table[i] EXCEPT !.Total_Score =
            (1 * CCRes - table[i].Predicted[w]) * table[i].Score ] ]

\* order_list with the band's lower edge taken in
order_list_from_edge(table, latitude) ==
    { i \in 1..Len(table) :
        /\ table[i].Latitude >= latitude
        /\ table[i].Latitude < latitude + BandWidth * LatRes }

\* order_list of one band: the rows strictly between latitude and latitude + 1
order_list(table, latitude) ==
    { i \in 1..Len(table) :
        /\ table[i].Latitude > latitude
        /\ table[i].Latitude < latitude + BandWidth * LatRes }

\* idxmax picking the minimum instead
idxmax_picks_min(table, rows) ==
    CHOOSE i \in rows :
        \A j \in rows :
            \/ table[i].Total_Score < table[j].Total_Score
            \/ (table[i].Total_Score = table[j].Total_Score /\ i <= j)

\* Series.idxmax: the first row holding the maximum
idxmax(table, rows) ==
    CHOOSE i \in rows :
        \A j \in rows :
            \/ table[i].Total_Score > table[j].Total_Score
            \/ (table[i].Total_Score = table[j].Total_Score /\ i <= j)

\* schedule_orders' while loop, entered with the given latitude
RECURSIVE schedule_from(_, _, _)
schedule_from(table, latitude, maxlat) ==
    IF ~(latitude < maxlat + 1 * LatRes) THEN table
    ELSE LET rows == order_list(table, latitude)
             next == IF rows # {}
                     THEN [ table EXCEPT ![idxmax(table, rows)].Scheduled = TRUE ]
                     ELSE table
         IN  schedule_from(next, latitude + BandStep * LatRes, maxlat)

schedule_orders(table, minlat, maxlat) == schedule_from(table, minlat, maxlat)

\* the loop running while latitude <= max_latitude + 1
RECURSIVE band_iterations_inclusive(_, _)
band_iterations_inclusive(latitude, maxlat) ==
    IF ~(latitude <= maxlat + 1 * LatRes) THEN 0
    ELSE 1 + band_iterations_inclusive(latitude + BandStep * LatRes, maxlat)

\* The number of times the body of schedule_orders' while loop runs when the
\* loop is entered with the given latitude
RECURSIVE band_iterations(_, _)
band_iterations(latitude, maxlat) ==
    IF ~(latitude < maxlat + 1 * LatRes) THEN 0
    ELSE 1 + band_iterations(latitude + BandStep * LatRes, maxlat)

\* total_dollars: DollarPerSquare summed over the rows that are scheduled and
\* whose MAX_CC exceeds Actual_w
RECURSIVE sum_dollars(_, _, _)
sum_dollars(table, w, n) ==
    IF n = 0 THEN 0
    ELSE sum_dollars(table, w, n - 1)
         + ( IF table[n].Scheduled /\ table[n].MAX_CC > table[n].Actual[w]
             THEN table[n].DollarPerSquare ELSE 0 )

RECURSIVE sum_dollars_within_or_at(_, _, _)
sum_dollars_within_or_at(table, w, n) ==
    IF n = 0 THEN 0
    ELSE sum_dollars_within_or_at(table, w, n - 1)
         + ( IF table[n].Scheduled /\ table[n].MAX_CC >= table[n].Actual[w]
             THEN table[n].DollarPerSquare ELSE 0 )

\* total_dollars accepting an actual cloud cover equal to MAX_CC
total_dollars_at_limit(table, w) == sum_dollars_within_or_at(table, w, Len(table))

total_dollars(table, w) == sum_dollars(table, w, Len(table))

\* cost_function's for loop over the weather columns order[1..k], as one
\* function: the table after it and the dollars it summed
RECURSIVE after_scenarios(_, _, _, _, _)
after_scenarios(table, order, k, minlat, maxlat) ==
    IF k = 0 THEN [ table |-> table, total |-> 0 ]
    ELSE LET before == after_scenarios(table, order, k - 1, minlat, maxlat)
             w      == order[k]
             sched  == schedule_orders(
                           populate_total_score(reset_scheduled(before.table), w),
                           minlat, maxlat)
         IN  [ table |-> sched, total |-> before.total + total_dollars(sched, w) ]

\* ----------------------------------------------- Optimizer.cost_function
\* One call of cost_function, at the granularity of its statements: the
\* calls on self.orders inside it are the steps.
weather_column == scenario_order[pos]

NoReturn == [ value |-> [ num |-> 0, den |-> 1 ], jitter |-> 0 ]

\* cost_function entered with coefficients c: produce_curve, curve_check,
\* populate_priority, populate_score, average_dollar_total = 0
CostFunctionCall(c) ==
    /\ cf_pc \in {"idle", "done"}
    /\ coefficients' = c
    /\ multiplyer' = curve_check(produce_curve(c))
    /\ active_orders' =
           populate_score(populate_priority(active_orders, produce_curve(c)))
    /\ average_dollar_total' = 0
    /\ pos' = 1
    /\ cf_pc' = IF weather_scenarios >= 1 THEN "reset" ELSE "average"
    /\ scenario_dollars' = << >>
    /\ returned' = NoReturn
    /\ UNCHANGED << loaded, func, evaluations, evaluated,
                    run_vars >>

\* self.orders.active_orders.Scheduled = False
ResetScheduled ==
    /\ cf_pc = "reset"
    /\ active_orders' = reset_scheduled(active_orders)
    /\ cf_pc' = "total_score"
    /\ UNCHANGED << loaded, coefficients, multiplyer, pos,
                    average_dollar_total, scenario_dollars, returned, func,
                    evaluations, evaluated,
                    run_vars >>

\* self.orders.populate_total_score(weather_column)
PopulateTotalScore ==
    /\ cf_pc = "total_score"
    /\ active_orders' = populate_total_score(active_orders, weather_column)
    /\ cf_pc' = "schedule"
    /\ UNCHANGED << loaded, coefficients, multiplyer, pos,
                    average_dollar_total, scenario_dollars, returned, func,
                    evaluations, evaluated,
                    run_vars >>

\* self.orders.schedule_orders()
ScheduleOrders ==
    /\ cf_pc = "schedule"
    /\ active_orders' = schedule_orders(active_orders, min_latitude, max_latitude)
    /\ cf_pc' = "dollars"
    /\ UNCHANGED << loaded, coefficients, multiplyer, pos,
                    average_dollar_total, scenario_dollars, returned, func,
                    evaluations, evaluated,
                    run_vars >>

\* average_dollar_total += self.orders.total_dollars(weather_column), and the
\* for loop's step to the next weather_column
AddTotalDollars ==
    /\ cf_pc = "dollars"
    /\ average_dollar_total' =
           average_dollar_total + total_dollars(active_orders, weather_column)
    /\ scenario_dollars' =
           (weather_column :> total_dollars(active_orders, weather_column))
               @@ scenario_dollars
    /\ IF pos < weather_scenarios
       THEN pos' = pos + 1 /\ cf_pc' = "reset"
       ELSE pos' = pos /\ cf_pc' = "average"
    /\ UNCHANGED << active_orders, loaded, coefficients, multiplyer, returned,
                    func, evaluations, evaluated,
                    run_vars >>

\* the multiplyer multiplied in instead of divided by
pre_jitter_multiplied(total, scenarios, mult) ==
    [ num |-> -total * mult, den |-> scenarios ]

\* The value before the jitter, -((average_dollar_total / weather_scenarios)
\* / multiplyer), as the fraction num / den
\* the sum of the scenarios divided by the multiplyer alone
pre_jitter_unaveraged(total, scenarios, mult) ==
    [ num |-> -total, den |-> mult ]

pre_jitter(total, scenarios, mult) ==
    [ num |-> -total, den |-> scenarios * mult ]

\* average_dollar_total / self.weather_scenarios, the negation, the division
\* by multiplyer, the jitter rng.normal() * .1 (in hundredths) and the return
ReturnValue(jitter) ==
    /\ cf_pc = "average"
    /\ weather_scenarios # 0
    /\ returned' = [ value  |-> pre_jitter(average_dollar_total,
                                           weather_scenarios, multiplyer),
                     jitter |-> jitter ]
    /\ cf_pc' = "done"
    /\ UNCHANGED << active_orders, loaded, coefficients, multiplyer, pos,
                    average_dollar_total, scenario_dollars, func,
                    evaluations, run_vars >>

CostFunctionReturn(jitter) ==
    /\ ReturnValue(jitter)
    /\ UNCHANGED evaluated

\* ------------------------------------------------------------ input data
\* A coefficient vector a + b*x + e*(x - 15)^2, given in priority units
Coef(a, b, e) == << a, b, 0, 0, e, 0, 0 >>

Rising   == Coef(0, 2 * Resolution, 0)                          \* 2x: 0 .. 98
Falling  == Coef(pri_max * Resolution, -2 * Resolution, 0)      \* 100 - 2x: 2 .. 100
TooHigh  == Coef((pri_max + 50) * Resolution, 0, 0)             \* 150 everywhere
TooLow   == Coef(39 * Resolution, -1 * Resolution, 0)           \* 39 - x: -10 .. 39
JustOver == Coef(pri_max * Resolution + 1, -2 * Resolution, 0)  \* max 100 + 1/Resolution

CostCoefs == { Rising, Falling, TooHigh }

JitterSet == { -1, 0, 1 }

\* Latitudes, relative to a band edge: on the edge, inside the band, on the
\* band's upper limit, inside the next band
LatSet == { 0, 1, BandWidth * LatRes, BandStep * LatRes + 1 }
DollarSet == { 1, 3 }
WeatherSeeds == { 0, 1 }

\* populate_actual_cc, populate_predicted_cc: the cloud cover columns, and the
\* MAX_CC column of the csv: fractions in [0, 1]
ActualCC(seed, i, s) == (seed + 3 * i + s + i * s) % CCRes
PredictedCC(seed, i, s) == (seed * i + s * (i + 1)) % (CCRes + 1)
MaxCC(i) == 1 + (i % 2)

\* One row after load_data and prepare_dataframe (add_columns: derived
\* columns 0 and Scheduled False); the longitude, customer and task priority
\* are those of an order that keeps its loaded dollar value
NewRow(lat, dollar, i, seed, scenarios) ==
    [ Latitude |-> lat, DollarPerSquare |-> dollar, MAX_CC |-> MaxCC(i),
      Longitude |-> i % 2, Cust_Num |-> 400, Task_Pri |-> 700,
      Actual |-> [ s \in 1..scenarios |-> ActualCC(seed, i, s) ],
      Predicted |-> [ s \in 1..scenarios |-> PredictedCC(seed, i, s) ],
      New_Priority |-> 0, Score |-> 0, Total_Score |-> 0, Scheduled |-> FALSE ]

OrderTablesOf(lats, dollars, seeds, scenarios) ==
    { [ i \in 1..NumOrders |-> NewRow(f[i][1], f[i][2], i, seed, scenarios) ] :
        f \in [ 1..NumOrders -> lats \X dollars ], seed \in seeds }

OrderTables(scenarios) == OrderTablesOf(LatSet, DollarSet, WeatherSeeds, scenarios)

Latitudes(table) == { table[i].Latitude : i \in 1..Len(table) }

IdentityOrder(scenarios) == [ s \in 1..scenarios |-> s ]

\* Orders.__init__ has returned: the columns are prepared
Prepared ==
    /\ prep_pc = "ready"
    /\ weather_type = "random"
    /\ predicted_cc_uncertainty = 0
    /\ cloud_cover = << >>
    /\ column_number = weather_scenarios
    /\ printed = {}

\* produce_optimized_curves is not running
NoResult == [ x |-> << >>, fun |-> NoReturn, message |-> "" ]

NoRun ==
    /\ case_inputs = << >>
    /\ case_results = << >>
    /\ initial_case_count = 0
    /\ starting_point = 1
    /\ run_pc = "off"
    /\ result = NoResult
    /\ searched = {}

\* Orders.__init__ and Optimizer.__init__ done, cost_function not yet called
InitOrders(tables, orders) ==
    /\ weather_scenarios = NumScenarios
    /\ active_orders \in tables
    /\ min_latitude = SetMin(Latitudes(active_orders))
    /\ max_latitude = SetMax(Latitudes(active_orders))
    /\ scenario_order \in orders
    /\ cf_pc = "idle"
    /\ coefficients = << >>
    /\ multiplyer = 1
    /\ pos = 1
    /\ average_dollar_total = 0
    /\ scenario_dollars = << >>
    /\ returned = NoReturn
    /\ func = << >>
    /\ evaluations = << >>
    /\ evaluated = << >>
    /\ NoRun
    /\ Prepared

Init == InitOrders(OrderTables(NumScenarios), { IdentityOrder(NumScenarios) })

Next ==
    \/ \E c \in CostCoefs : CostFunctionCall(c)
    \/ ResetScheduled
    \/ PopulateTotalScore
    \/ ScheduleOrders
    \/ AddTotalDollars
    \/ \E j \in JitterSet : CostFunctionReturn(j)

Spec == Init /\ [][Next]_vars

\* The same program with the for loop of cost_function visiting the weather
\* columns in any fixed order
ScenarioOrders(n) ==
    { f \in [ 1..n -> 1..n ] : \A i, j \in 1..n : f[i] = f[j] => i = j }

InitPerm ==
    InitOrders(OrderTablesOf(LatSet \ { BandWidth * LatRes }, DollarSet, { 0 },
                             NumScenarios),
               ScenarioOrders(NumScenarios))

SpecPerm == InitPerm /\ [][Next]_vars

\* ------------------------------------------- curve_check on its own
\* The straight line through (0, lo) and (49, hi): produce_curve with a real
\* slope, its values cut to the model's resolution
Ramp(lo, hi) ==
    [ x \in CurveArgs |-> lo + (((hi - lo) * x) \div (GridLen - 1)) ]

\* Values at, just below and just above -10, 0, 100 and 150
RoundValues ==
    { b * Resolution + d :
        b \in { -10, 0, pri_max, pri_max + 50 }, d \in (-MaxOffset)..MaxOffset }

CheckedCurves ==
    { Ramp(lo, hi) : lo \in RoundValues, hi \in RoundValues }
    \cup { produce_curve(Coef(a, b, e)) :
              a \in RoundValues,
              b \in { -2 * Resolution, 0, 2 * Resolution },
              e \in { -1, 0, 1 } }

InitCurve ==
    /\ func \in CheckedCurves
    /\ evaluations = << >>
    /\ evaluated = << >>
    /\ cf_pc = "check"
    /\ multiplyer = 1
    /\ active_orders = << >>
    /\ min_latitude = 0
    /\ max_latitude = 0
    /\ weather_scenarios = NumScenarios
    /\ scenario_order = IdentityOrder(NumScenarios)
    /\ coefficients = << >>
    /\ pos = 1
    /\ average_dollar_total = 0
    /\ scenario_dollars = << >>
    /\ returned = NoReturn
    /\ NoRun
    /\ Prepared

\* multiplyer = self.curve_check(curve)
CurveCheck ==
    /\ cf_pc = "check"
    /\ multiplyer' = curve_check(func)
    /\ cf_pc' = "checked"
    /\ UNCHANGED << active_orders, loaded, coefficients, pos,
                    average_dollar_total, scenario_dollars, returned, func,
                    evaluations, evaluated,
                    run_vars >>

NextCurve == CurveCheck

SpecCurve == InitCurve /\ [][NextCurve]_vars

\* ------------------------------------------------------- Orders.__init__
\* In this part cloud cover is held in hundredths: find_cloud_cover returns
\* percent and populate_actual_cc divides it by 100.

Percent == 100               \* populate_actual_cc: find_cloud_cover(...)/100
CloudyCover == 90            \* find_cloud_cover: return 90
RandomCoverTop == 90         \* find_cloud_cover: rng.random()*90
QuarterDegree == 4           \* find_cloud_cover: round(lat * 4) / 4
HighVolumeCustomer == 306    \* populate_dollar_values: Cust_Num == 306
UncertaintyFactor == 2       \* __init__: parameters[...] * 2

\* Python's round(n / d) for d > 0: to the nearest whole number, a tie to the
\* even one
round_half_even(n, d) ==
    LET q == n \div d
        r == n - q * d
    IN  IF 2 * r < d THEN q
        ELSE IF 2 * r > d THEN q + 1
        ELSE IF q % 2 = 0 THEN q ELSE q + 1

\* round(lat * 4) / 4, in quarters of a degree
round_quarter(lat) == round_half_even(QuarterDegree * lat, LatRes)

\* find_cloud_cover with self.cloud_cover = grid; draw is what rng.random()*90
\* gives. A miss (.iloc[0] on no rows) is caught and printed and the function
\* ends without a return statement, as it does for an unknown weather type.
find_cloud_cover(grid, lat, lon, draw) ==
    IF weather_type = "clear" THEN 0
    ELSE IF weather_type = "cloudy" THEN CloudyCover
    ELSE IF weather_type = "random" THEN draw
    ELSE IF weather_type = "PWOT"
         THEN LET cell == << round_quarter(lat), round_quarter(lon) >>
              IN  IF cell \in DOMAIN grid THEN grid[cell] ELSE None
         ELSE None

\* value / 100 of a percentage, in hundredths
Hundredths(percent) == (100 * percent) \div Percent

\* the column left as it was computed
clip_nothing(v) == v

\* .clip(lower=0, upper=1) of a fraction in hundredths
clip(v) == IF v < 0 THEN 0 ELSE IF v > 100 THEN 100 ELSE v

\* the noise added whatever the uncertainty
predicted_cc_unscaled(actual, normal) == clip(actual + 10 * normal)

\* x.Actual_n + rng.standard_normal() * self.predicted_cc_uncertainty, clipped;
\* normal is the draw in tenths
predicted_cc(actual, normal) ==
    clip(actual + ((normal * predicted_cc_uncertainty) \div 10))

\* parameters["zero_dollar_cust_dpsqkm"] and parameters["MCP_dollar_values"]:
\* some of the entries json_writer.py writes
zero_dollar_customer_values == (82 :> 1) @@ (306 :> 2) @@ (331 :> 10)
MCP_priority_to_dollar_map == (698 :> 3) @@ (758 :> 1)

\* populate_MCP_dollar_value: no return when x is not a key, and Series.map
\* makes nan of None
populate_MCP_dollar_value(x) ==
    IF x \in DOMAIN MCP_priority_to_dollar_map
    THEN MCP_priority_to_dollar_map[x] ELSE NaN

\* populate_dollar_values: the two .loc assignments, one after the other
populate_dollar_values(table) ==
    LET flat == [ i \in 1..Len(table) |->
                    IF table[i].Cust_Num \in DOMAIN zero_dollar_customer_values
                    THEN [ table[i] EXCEPT !.DollarPerSquare =
                               zero_dollar_customer_values[table[i].Cust_Num] ]
                    ELSE table[i] ]
    IN  [ i \in 1..Len(table) |->
            IF flat[i].Cust_Num = HighVolumeCustomer
            THEN [ flat[i] EXCEPT !.DollarPerSquare =
                       populate_MCP_dollar_value(flat[i].Task_Pri) ]
            ELSE flat[i] ]

\* The rows of the orders csv. Row i lies at latitude 2(i - 1) and longitude
\* i % 2 (units of 1/LatRes degree) and comes with 4 + i dollars.
Customers == { 82, HighVolumeCustomer, 400 }
TaskPris == { 698, 700, 758 }

RawRow(i, cust, pri) ==
    [ Latitude |-> 2 * (i - 1), Longitude |-> i % 2, Cust_Num |-> cust,
      Task_Pri |-> pri, DollarPerSquare |-> 4 + i, MAX_CC |-> MaxCC(i) ]

\* The first row's customer and priority vary, the others are customer 82 at
\* 698 and customer 400 at 700 in turn; and the csv with no rows
RawTables ==
    { [ i \in 1..NumOrders |->
          IF i = 1 THEN RawRow(i, cp[1], cp[2])
          ELSE IF i % 2 = 0 THEN RawRow(i, 82, 698) ELSE RawRow(i, 400, 700) ] :
        cp \in Customers \X TaskPris }
    \cup { << >> }

\* The PWOT csv files: a grid with a Value in percent for every cell the
\* orders round to, and one that lacks the cell of the second order
GridCells == (0..(2 * NumOrders)) \X (0..1)
FullGrid == [ c \in GridCells |-> (17 * c[1] + 29 * c[2]) % (Percent + 1) ]
HoledGrid == [ c \in GridCells \ { << 2, 0 >> } |-> FullGrid[c] ]

\* A csv whose Values are the ends of the percent scale
EdgeGrid == [ c \in GridCells |-> IF c[1] % 4 = 0 THEN Percent ELSE 0 ]
PWOTFiles == { FullGrid, HoledGrid, EdgeGrid }

WeatherTypes == { "clear", "cloudy", "random", "PWOT" }
Uncertainties == { 0, 15 }
NormalDraws == { -30, -10, 10, 30 }
ScenarioCounts == { 0, NumScenarios }

\* rng.random()*90 for row i of column s
RandomCover(seed, i, s) == (ActualCC(seed, i, s) * RandomCoverTop) \div CCRes

\* rng.standard_normal() for row i of column s, in tenths
Normal(draw, i, s) == IF (i + s) % 2 = 0 THEN draw ELSE -draw

\* The for loops over range(self.weather_scenarios)
FirstColumn(pc, after) == IF weather_scenarios = 0 THEN after ELSE pc
NextColumn(pc, after) ==
    IF column_number + 1 = weather_scenarios THEN after ELSE pc

\* load_data: min() of no latitudes raises ValueError
LoadData ==
    /\ prep_pc = "load"
    /\ IF active_orders = << >>
       THEN /\ prep_pc' = "raised"
            /\ UNCHANGED << min_latitude, max_latitude >>
       ELSE /\ min_latitude' = SetMin(Latitudes(active_orders))
            /\ max_latitude' = SetMax(Latitudes(active_orders))
            /\ prep_pc' = "add_columns"
    /\ UNCHANGED << active_orders, weather_scenarios, scenario_order,
                    weather_type, predicted_cc_uncertainty, cloud_cover,
                    column_number, printed, cf_vars, func, evaluations, evaluated,
                    run_vars >>

add_columns(table) ==
    [ i \in 1..Len(table) |->
        table[i] @@ [ New_Priority |-> 0, Score |-> 0, Total_Score |-> 0,
                      Scheduled |-> FALSE, Actual |-> << >>,
                      Predicted |-> << >> ] ]

AddColumns ==
    /\ prep_pc = "add_columns"
    /\ active_orders' = add_columns(active_orders)
    /\ column_number' = 0
    /\ prep_pc' = FirstColumn("actual", "dollars")
    /\ UNCHANGED << min_latitude, max_latitude, weather_scenarios,
                    scenario_order, weather_type, predicted_cc_uncertainty,
                    cloud_cover, printed, cf_vars, func, evaluations, evaluated,
                    run_vars >>

\* The rows for which find_cloud_cover returns None on grid
missed_rows(table, grid, seed, s) ==
    { i \in 1..Len(table) :
        find_cloud_cover(grid, table[i].Latitude, table[i].Longitude,
                         RandomCover(seed, i, s)) = None }

\* One round of populate_actual_cc's loop: the csv is read and the column
\* made by apply, row after row. None / 100 raises TypeError at the first
\* row missed, after find_cloud_cover has printed its cell.
PopulateActualCC(grid, seed) ==
    /\ prep_pc = "actual"
    /\ cloud_cover' = grid
    /\ LET s == column_number + 1
           missed == missed_rows(active_orders, grid, seed, s)
       IN  IF missed # {}
           THEN LET row == active_orders[SetMin(missed)]
                IN  /\ printed' = printed \cup
                           { << round_quarter(row.Latitude),
                                round_quarter(row.Longitude) >> }
                    /\ prep_pc' = "raised"
                    /\ UNCHANGED << active_orders, column_number >>
           ELSE /\ active_orders' =
                       [ i \in 1..Len(active_orders) |->
                           [ active_orders[i] EXCEPT !.Actual =
                               Append(@, Hundredths(
                                   find_cloud_cover(grid, active_orders[i].Latitude,
                                                    active_orders[i].Longitude,
                                                    RandomCover(seed, i, s)))) ] ]
                /\ column_number' = (column_number + 1) % weather_scenarios
                /\ prep_pc' = NextColumn("actual", "predicted")
                /\ UNCHANGED printed
    /\ UNCHANGED << min_latitude, max_latitude, weather_scenarios,
                    scenario_order, weather_type, predicted_cc_uncertainty,
                    cf_vars, func, evaluations, evaluated,
                    run_vars >>

\* One round of populate_predicted_cc's loop
PopulatePredictedCC(draw) ==
    /\ prep_pc = "predicted"
    /\ LET s == column_number + 1
       IN  active_orders' =
               [ i \in 1..Len(active_orders) |->
                   [ active_orders[i] EXCEPT !.Predicted =
                       Append(@, IF weather_type = "clear" THEN 0
                                 ELSE predicted_cc(active_orders[i].Actual[s],
                                                   Normal(draw, i, s))) ] ]
    /\ column_number' = (column_number + 1) % weather_scenarios
    /\ prep_pc' = NextColumn("predicted", "dollars")
    /\ UNCHANGED << min_latitude, max_latitude, weather_scenarios,
                    scenario_order, weather_type, predicted_cc_uncertainty,
                    cloud_cover, printed, cf_vars, func, evaluations, evaluated,
                    run_vars >>

PopulateDollarValues ==
    /\ prep_pc = "dollars"
    /\ active_orders' = populate_dollar_values(active_orders)
    /\ column_number' = weather_scenarios
    /\ prep_pc' = "ready"
    /\ UNCHANGED << min_latitude, max_latitude, weather_scenarios,
                    scenario_order, weather_type, predicted_cc_uncertainty,
                    cloud_cover, printed, cf_vars, func, evaluations, evaluated,
                    run_vars >>

\* Orders.__init__ entered: the parameters are read, the csv is not
InitPrep ==
    /\ active_orders \in RawTables
    /\ weather_scenarios \in ScenarioCounts
    /\ weather_type \in WeatherTypes
    /\ predicted_cc_uncertainty \in
           { UncertaintyFactor * u : u \in Uncertainties }
    /\ prep_pc = "load"
    /\ cloud_cover = << >>
    /\ column_number = 0
    /\ printed = {}
    /\ min_latitude = 0
    /\ max_latitude = 0
    /\ scenario_order = IdentityOrder(weather_scenarios)
    /\ cf_pc = "idle"
    /\ coefficients = << >>
    /\ multiplyer = 1
    /\ pos = 1
    /\ average_dollar_total = 0
    /\ scenario_dollars = << >>
    /\ returned = NoReturn
    /\ func = << >>
    /\ evaluations = << >>
    /\ evaluated = << >>
    /\ NoRun

NextPrep ==
    \/ LoadData
    \/ AddColumns
    \/ \E grid \in PWOTFiles, seed \in WeatherSeeds : PopulateActualCC(grid, seed)
    \/ \E draw \in NormalDraws : PopulatePredictedCC(draw)
    \/ PopulateDollarValues

SpecPrep == InitPrep /\ [][NextPrep]_vars

\* ---------------------------------- Optimizer.produce_optimized_curves
\* cost_function as the search sees it: the value before the jitter for the
\* coefficients c. Every derived column it reads it has written before, so the
\* table the driver holds is passed as loaded.
\* cost_function without the division by the multiplyer
cost_value_unpenalised(table, c, minlat, maxlat, scenarios) ==
    LET curve  == produce_curve(c)
        scored == populate_score(populate_priority(table, curve))
    IN  pre_jitter(after_scenarios(scored, IdentityOrder(scenarios), scenarios,
                                   minlat, maxlat).total,
                   scenarios, 1)

cost_value(table, c, minlat, maxlat, scenarios) ==
    LET curve  == produce_curve(c)
        scored == populate_score(populate_priority(table, curve))
    IN  pre_jitter(after_scenarios(scored, IdentityOrder(scenarios), scenarios,
                                   minlat, maxlat).total,
                   scenarios, curve_check(curve))

\* Python's round(n / d, 2) in hundredths for d > 0: to the nearest, a tie to
\* the even neighbour
round2(n, d) ==
    LET q == (100 * n) \div d
        r == (100 * n) - q * d
    IN  IF 2 * r < d THEN q
        ELSE IF 2 * r > d THEN q + 1
        ELSE IF q % 2 = 0 THEN q ELSE q + 1

\* the value with its sign turned back
denegated_fun(fun) == -(round2(fun.value.num, fun.value.den) + fun.jitter)

\* round(result.fun, 2), in hundredths; the jitter is a whole number of them
rounded_fun(fun) == round2(fun.value.num, fun.value.den) + fun.jitter

\* The messages of scipy.optimize.minimize's result
SuccessMessage == "Optimization terminated successfully."
MaxFevMessage  == "Maximum number of function evaluations has been exceeded."
MaxIterMessage == "Maximum number of iterations has been exceeded."
OtherMessage   == "Desired error not necessarily achieved due to precision loss."
Messages == { SuccessMessage, MaxFevMessage, MaxIterMessage, OtherMessage }

\* The coefficient vectors of the starting cases, and those a search may end at
StartCoefs == { Rising, Falling, TooLow, JustOver }
SearchPoints == { Rising, Falling, TooLow }
RunJitter == { 0, 1 }

\* What minimize(self.cost_function, x0, ...) may return: a point x it
\* evaluated, the value cost_function returned for it (jitter included), and
\* why it stopped
MinimizeResults(x0) ==
    UNION { LET value == cost_value(active_orders, x, min_latitude,
                                    max_latitude, weather_scenarios)
            IN  { [ x       |-> x,
                    fun     |-> [ value |-> value, jitter |-> j ],
                    message |-> m ] : j \in RunJitter, m \in Messages } :
            x \in SearchPoints }

\* The first evaluation minimize makes, cost_function(x0), divides its sum
\* (0 when there is no scenario to add) by self.weather_scenarios:
\* ZeroDivisionError when that is 0
zero_division(x0) == pre_jitter(0, weather_scenarios, 1).den = 0

success(res) == res.message = SuccessMessage

\* "if not result.success: if result.message != ...: raise ValueError"
fatal(res) == ~success(res) /\ res.message # MaxFevMessage

\* every starting curve taken as valid
starting_curve_always_valid(coefs) == TRUE

\* "if self.curve_check(curve) == 1" on the curve of the starting coefficients
starting_curve_valid(coefs) == curve_check(produce_curve(coefs)) = 1

\* the row with the greatest Total
idxmax_total(results) ==
    CHOOSE i \in 1..Len(results) :
        \A j \in 1..Len(results) :
            \/ results[i].Total > results[j].Total
            \/ (results[i].Total = results[j].Total /\ i <= j)

\* case_results.Total.idxmin(): the first row with the least Total
idxmin_total(results) ==
    CHOOSE i \in 1..Len(results) :
        \A j \in 1..Len(results) :
            \/ results[i].Total < results[j].Total
            \/ (results[i].Total = results[j].Total /\ i <= j)

\* the loop left after its first round
AfterFirstCase == "refine"

AfterCase == IF starting_point = initial_case_count THEN "refine" ELSE "cases"

\* One round of the for loop whose starting curve passes the check: minimize
\* is called; an error in cost_function or a fatal result raises, any other
\* result is written to the row
OptimizeCase ==
    /\ run_pc = "cases"
    /\ starting_curve_valid(case_inputs[starting_point])
    /\ searched' = searched \cup
           { [ row |-> starting_point, x0 |-> case_inputs[starting_point] ] }
    /\ IF zero_division(case_inputs[starting_point])
       THEN /\ run_pc' = "raised"
            /\ UNCHANGED << result, case_results, starting_point >>
       ELSE \E res \in MinimizeResults(case_inputs[starting_point]) :
              /\ result' = res
              /\ IF fatal(res)
                 THEN /\ run_pc' = "raised"
                      /\ UNCHANGED << case_results, starting_point >>
                 ELSE /\ case_results' =
                             [ case_results EXCEPT ![starting_point] =
                                 [ coefs |-> res.x,
                                   Total |-> rounded_fun(res.fun) ] ]
                      /\ starting_point' = starting_point + 1
                      /\ run_pc' = AfterCase
    /\ UNCHANGED << active_orders, loaded, cf_vars, func, evaluations,
                    evaluated, case_inputs,
                    initial_case_count >>

\* One round of the for loop whose starting curve fails the check: the
\* coefficients and the curve values are printed
SkipCase ==
    /\ run_pc = "cases"
    /\ ~starting_curve_valid(case_inputs[starting_point])
    /\ starting_point' = starting_point + 1
    /\ run_pc' = AfterCase
    /\ UNCHANGED << active_orders, loaded, cf_vars, func, evaluations,
                    evaluated, case_inputs,
                    case_results, initial_case_count, result, searched >>

\* After the loop: the best row's coefficients are appended to case_inputs and
\* minimize is called on them; a fatal result raises, any other is appended
\* to case_results
Refine ==
    /\ run_pc = "refine"
    /\ LET best_row == idxmin_total(case_results)
           coefs    == case_results[best_row].coefs
       IN  /\ case_inputs' = Append(case_inputs, coefs)
           /\ searched' = searched \cup
                  { [ row |-> initial_case_count + 1, x0 |-> coefs ] }
           /\ IF zero_division(coefs)
              THEN /\ run_pc' = "raised"
                   /\ UNCHANGED << result, case_results >>
              ELSE \E res \in MinimizeResults(coefs) :
                     /\ result' = res
                     /\ IF fatal(res)
                        THEN /\ run_pc' = "raised"
                             /\ UNCHANGED case_results
                        ELSE /\ case_results' =
                                    Append(case_results,
                                           [ coefs |-> res.x,
                                             Total |-> rounded_fun(res.fun) ])
                             /\ run_pc' = "done"
    /\ UNCHANGED << active_orders, loaded, cf_vars, func, evaluations,
                    evaluated, initial_case_count, starting_point >>

\* The order tables of the runs: the first order on the lowest band's edge,
\* the others inside the band; every order at d dollars (a zero dollar
\* customer's, or 3)
RunTable(d, scenarios) ==
    [ i \in 1..NumOrders |->
        NewRow(IF i = 1 THEN 0 ELSE 1, d, i, 0, scenarios) ]

RunTables(scenarios) == { RunTable(0, scenarios), RunTable(3, scenarios) }

\* Optimizer.__init__ has called Orders(parameters), whose load_data is about
\* to read an orders csv without rows
EmptyCsv ==
    /\ weather_scenarios = NumScenarios
    /\ active_orders = << >>
    /\ min_latitude = 0
    /\ max_latitude = 0
    /\ prep_pc = "load"
    /\ weather_type = "random"
    /\ predicted_cc_uncertainty = 0
    /\ cloud_cover = << >>
    /\ column_number = 0
    /\ printed = {}
    /\ NoRun

\* Optimizer.__init__ done (load_data: case_results is case_inputs with a
\* Total column of 0), produce_optimized_curves entered
Constructed ==
    /\ weather_scenarios \in ScenarioCounts
    /\ active_orders \in RunTables(weather_scenarios)
    /\ min_latitude = SetMin(Latitudes(active_orders))
    /\ max_latitude = SetMax(Latitudes(active_orders))
    /\ case_inputs \in [ 1..NumCases -> StartCoefs ]
    /\ case_results =
           [ i \in 1..NumCases |-> [ coefs |-> case_inputs[i], Total |-> 0 ] ]
    /\ initial_case_count = NumCases
    /\ starting_point = 1
    /\ run_pc = "cases"
    /\ result = NoResult
    /\ searched = {}
    /\ Prepared

\* A run: either the construction is through, or it is about to fail on the
\* csv
InitRun ==
    /\ Constructed \/ EmptyCsv
    /\ scenario_order = IdentityOrder(weather_scenarios)
    /\ cf_pc = "idle"
    /\ coefficients = << >>
    /\ multiplyer = 1
    /\ pos = 1
    /\ average_dollar_total = 0
    /\ scenario_dollars = << >>
    /\ returned = NoReturn
    /\ func = << >>
    /\ evaluations = << >>
    /\ evaluated = << >>

NextRun ==
    \/ LoadData
    \/ OptimizeCase
    \/ SkipCase
    \/ Refine

SpecRun == InitRun /\ [][NextRun]_vars

\* ------------------------------------------ produce_curve on its own
\* Coefficient vectors with every term of the curve present, and the same
\* with nan in one place
FullVectors == [ 1..7 -> { -2, 1 } ]
NaNVectors ==
    { [ v EXCEPT ![i] = NaN ] : v \in FullVectors, i \in 1..7 }

InfVectors ==
    { [ v EXCEPT ![i] = inf ] :
        v \in FullVectors, i \in 1..7, inf \in { Inf, MinusInf } }

InitProduce ==
    /\ coefficients \in NaNVectors \cup InfVectors
    /\ cf_pc = "produce"
    /\ func = << >>
    /\ evaluations = << >>
    /\ evaluated = << >>
    /\ multiplyer = 1
    /\ active_orders = << >>
    /\ min_latitude = 0
    /\ max_latitude = 0
    /\ weather_scenarios = NumScenarios
    /\ scenario_order = IdentityOrder(NumScenarios)
    /\ pos = 1
    /\ average_dollar_total = 0
    /\ scenario_dollars = << >>
    /\ returned = NoReturn
    /\ NoRun
    /\ Prepared

\* curve = self.produce_curve(coefficients)
ProduceCurve ==
    /\ cf_pc = "produce"
    /\ func' = produce_curve(coefficients)
    /\ cf_pc' = "produced"
    /\ UNCHANGED << active_orders, loaded, coefficients, multiplyer, pos,
                    average_dollar_total, scenario_dollars, returned,
                    evaluations, evaluated,
                    run_vars >>

NextProduce == ProduceCurve

SpecProduce == InitProduce /\ [][NextProduce]_vars

\* ------------------------------------------- populate_score on its own
\* A table whose New_Priority column populate_priority has filled with p1 in
\* the first row and p2 or the next value above it in the others
PrioritisedTable(p1, p2) ==
    [ i \in 1..NumOrders |->
        [ NewRow(1, 1, i, 0, NumScenarios) EXCEPT
            !.New_Priority = IF i = 1 THEN p1 ELSE p2 + (i % 2) ] ]

InitScore ==
    /\ active_orders \in
           { PrioritisedTable(p1, p2) : p1 \in RoundValues, p2 \in RoundValues }
    /\ cf_pc = "score"
    /\ func = << >>
    /\ evaluations = << >>
    /\ evaluated = << >>
    /\ multiplyer = 1
    /\ min_latitude = 1
    /\ max_latitude = 1
    /\ weather_scenarios = NumScenarios
    /\ scenario_order = IdentityOrder(NumScenarios)
    /\ coefficients = << >>
    /\ pos = 1
    /\ average_dollar_total = 0
    /\ scenario_dollars = << >>
    /\ returned = NoReturn
    /\ NoRun
    /\ Prepared

\* self.orders.populate_score()
PopulateScore ==
    /\ cf_pc = "score"
    /\ active_orders' = populate_score(active_orders)
    /\ cf_pc' = "scored"
    /\ UNCHANGED << loaded, coefficients, multiplyer, pos,
                    average_dollar_total, scenario_dollars, returned, func,
                    evaluations, evaluated,
                    run_vars >>

NextScore == PopulateScore

SpecScore == InitScore /\ [][NextScore]_vars

\* ------------------------------- cost_function calls side by side
\* Two calls of cost_function with different coefficients, their statements
\* interleaved. Either both work on self.orders.active_orders, or each works
\* on a copy of the table made for it before the call.
Workers == { 1, 2 }

\* every call working on the one table
shares_table(w) == FALSE

\* Call w has a table of its own
own_copy(w) == evaluations[w].own

\* The table call w reads and writes
TableOf(w) == IF own_copy(w) THEN evaluations[w].table ELSE active_orders

\* Call w writes its table and its locals
Written(w, table, locals) ==
    IF own_copy(w)
    THEN /\ evaluations' =
                [ evaluations EXCEPT ![w] = [ locals EXCEPT !.table = table ] ]
         /\ UNCHANGED active_orders
    ELSE /\ evaluations' = [ evaluations EXCEPT ![w] = locals ]
         /\ active_orders' = table

\* What the other specifications hold in variables of their own
interleave_frame == << loaded, cf_vars, func, evaluated, run_vars >>

\* produce_curve, curve_check, populate_priority, populate_score,
\* average_dollar_total = 0
EvalCall(w) ==
    /\ evaluations[w].pc = "start"
    /\ LET curve == produce_curve(evaluations[w].coefficients)
       IN  Written(w, populate_score(populate_priority(TableOf(w), curve)),
                   [ evaluations[w] EXCEPT
                       !.multiplyer = curve_check(curve),
                       !.average_dollar_total = 0,
                       !.pos = 1,
                       !.pc = IF weather_scenarios >= 1
                              THEN "reset" ELSE "average" ])
    /\ UNCHANGED interleave_frame

\* self.orders.active_orders.Scheduled = False
EvalResetScheduled(w) ==
    /\ evaluations[w].pc = "reset"
    /\ Written(w, reset_scheduled(TableOf(w)),
               [ evaluations[w] EXCEPT !.pc = "total_score" ])
    /\ UNCHANGED interleave_frame

\* self.orders.populate_total_score(weather_column)
EvalPopulateTotalScore(w) ==
    /\ evaluations[w].pc = "total_score"
    /\ Written(w, populate_total_score(TableOf(w),
                                       scenario_order[evaluations[w].pos]),
               [ evaluations[w] EXCEPT !.pc = "schedule" ])
    /\ UNCHANGED interleave_frame

\* self.orders.schedule_orders()
EvalScheduleOrders(w) ==
    /\ evaluations[w].pc = "schedule"
    /\ Written(w, schedule_orders(TableOf(w), min_latitude, max_latitude),
               [ evaluations[w] EXCEPT !.pc = "dollars" ])
    /\ UNCHANGED interleave_frame

\* average_dollar_total += self.orders.total_dollars(weather_column)
EvalAddTotalDollars(w) ==
    /\ evaluations[w].pc = "dollars"
    /\ LET e == evaluations[w]
           last == e.pos >= weather_scenarios
       IN  Written(w, TableOf(w),
                   [ e EXCEPT
                       !.average_dollar_total =
                           @ + total_dollars(TableOf(w), scenario_order[e.pos]),
                       !.pos = IF last THEN @ ELSE @ + 1,
                       !.pc = IF last THEN "average" ELSE "reset" ])
    /\ UNCHANGED interleave_frame

\* the average, the negation and the division by multiplyer; the value before
\* the jitter is kept
EvalReturn(w) ==
    /\ evaluations[w].pc = "average"
    /\ weather_scenarios # 0
    /\ LET e == evaluations[w]
       IN  Written(w, TableOf(w),
                   [ e EXCEPT
                       !.returned = pre_jitter(e.average_dollar_total,
                                               weather_scenarios, e.multiplyer),
                       !.pc = "done" ])
    /\ UNCHANGED interleave_frame

\* A call about to be made with coefficients c, on a copy of table when own
NewEvaluation(c, own, table) ==
    [ pc |-> "start", coefficients |-> c, multiplyer |-> 1, pos |-> 1,
      average_dollar_total |-> 0, returned |-> NoReturn.value, own |-> own,
      table |-> IF own THEN table ELSE << >> ]

\* The first order on the band's edge, the others inside the band
InterleaveTables ==
    { [ i \in 1..NumOrders |->
          NewRow(IF i = 1 THEN 0 ELSE 1, f[i], i, seed, NumScenarios) ] :
        f \in [ 1..NumOrders -> DollarSet ], seed \in WeatherSeeds }

CoefPairs == { << Rising, Falling >>, << Falling, TooHigh >> }

InitInterleave ==
    /\ weather_scenarios = NumScenarios
    /\ active_orders \in InterleaveTables
    /\ min_latitude = SetMin(Latitudes(active_orders))
    /\ max_latitude = SetMax(Latitudes(active_orders))
    /\ scenario_order = IdentityOrder(NumScenarios)
    /\ \E own \in BOOLEAN, pair \in CoefPairs :
          evaluations =
              [ w \in Workers |-> NewEvaluation(pair[w], own, active_orders) ]
    /\ cf_pc = "idle"
    /\ coefficients = << >>
    /\ multiplyer = 1
    /\ pos = 1
    /\ average_dollar_total = 0
    /\ scenario_dollars = << >>
    /\ returned = NoReturn
    /\ func = << >>
    /\ evaluated = << >>
    /\ NoRun
    /\ Prepared

NextInterleave ==
    \E w \in Workers :
        \/ EvalCall(w)
        \/ EvalResetScheduled(w)
        \/ EvalPopulateTotalScore(w)
        \/ EvalScheduleOrders(w)
        \/ EvalAddTotalDollars(w)
        \/ EvalReturn(w)

SpecInterleave == InitInterleave /\ [][NextInterleave]_vars

\* ------------------------------------------- cost_function called repeatedly
\* minimize calls cost_function again and again on the one Orders object
\* (Optimizer.py line 87); each call's coefficients and the value it computed
\* before the random term are kept in evaluated.
MaxCalls == 3

RepeatCall(c) ==
    /\ Len(evaluated) < MaxCalls
    /\ CostFunctionCall(c)

RepeatReturn(jitter) ==
    /\ ReturnValue(jitter)
    /\ evaluated' = Append(evaluated, [ coefficients |-> coefficients,
                                        value        |-> returned'.value ])

InitRepeat == InitOrders(InterleaveTables, { IdentityOrder(NumScenarios) })

NextRepeat ==
    \/ \E c \in CostCoefs : RepeatCall(c)
    \/ ResetScheduled
    \/ PopulateTotalScore
    \/ ScheduleOrders
    \/ AddTotalDollars
    \/ \E j \in JitterSet : RepeatReturn(j)

SpecRepeat == InitRepeat /\ [][NextRepeat]_vars

\* ================================================================ claims
Rows == 1..Len(active_orders)

\* The lower edges schedule_orders visits: min_latitude + 2k, below
\* max_latitude + 1
BandEdges ==
    { L \in { min_latitude + 2 * LatRes * k :
                k \in 0..(max_latitude - min_latitude + LatRes) } :
        L < max_latitude + LatRes }

\* Row i lies strictly inside the one degree above edge L
InBand(i, L) ==
    /\ active_orders[i].Latitude > L
    /\ active_orders[i].Latitude < L + LatRes

\* Row i lies in the two degrees that start at edge L
InSlab(i, L) ==
    /\ active_orders[i].Latitude >= L
    /\ active_orders[i].Latitude < L + 2 * LatRes

RECURSIVE DollarSum(_)
DollarSum(S) ==
    IF S = {} THEN 0
    ELSE LET i == CHOOSE x \in S : TRUE
         IN  active_orders[i].DollarPerSquare + DollarSum(S \ {i})

\* C1: right after schedule_orders has run on freshly reset flags, every band
\* (lower edge min_latitude + 2k) holds at most one scheduled order, and every
\* scheduled order lies inside a band in which no order has a greater
\* Total_Score.
C1_OneBestOrderPerBand ==
    cf_pc = "dollars" =>
        /\ \A L \in BandEdges :
              Cardinality({ i \in Rows : active_orders[i].Scheduled /\ InSlab(i, L) }) <= 1
        /\ \A i \in Rows :
              active_orders[i].Scheduled =>
                  \E L \in BandEdges :
                      /\ InBand(i, L)
                      /\ \A j \in Rows :
                            InBand(j, L) =>
                                active_orders[i].Total_Score >= active_orders[j].Total_Score

\* Two orders of one band with different Total_Score, the better one
\* scheduled, and an order outside every band that outscores the winner
C1_Witness ==
    /\ cf_pc = "dollars"
    /\ \E L \in BandEdges : \E i, j, k \in Rows :
          /\ InBand(i, L) /\ InBand(j, L)
          /\ active_orders[i].Scheduled /\ ~active_orders[j].Scheduled
          /\ active_orders[i].Total_Score > active_orders[j].Total_Score
          /\ ~active_orders[k].Scheduled
          /\ active_orders[k].Total_Score > active_orders[i].Total_Score

\* The weather column total_dollars was last called for
SummedColumn == IF cf_pc = "average" THEN scenario_order[pos] ELSE scenario_order[pos - 1]
JustSummed == cf_pc = "average" \/ (cf_pc = "reset" /\ pos > 1)

\* C2: total_dollars(s) is the sum of DollarPerSquare over exactly the orders
\* that are scheduled in s and whose actual cloud cover in s is strictly below
\* their own MAX_CC.
C2_TotalDollarsIsScheduledInSpec ==
    JustSummed =>
        scenario_dollars[SummedColumn] =
            DollarSum({ i \in Rows :
                          /\ active_orders[i].Scheduled
                          /\ active_orders[i].Actual[SummedColumn] < active_orders[i].MAX_CC })

\* A scheduled order that pays, a scheduled order whose actual cloud cover
\* equals its MAX_CC, and an unscheduled order within its cloud limit
C2_Witness ==
    /\ JustSummed
    /\ scenario_dollars[SummedColumn] > 0
    /\ \E i, j, k \in Rows :
          /\ active_orders[i].Scheduled
          /\ active_orders[i].Actual[SummedColumn] < active_orders[i].MAX_CC
          /\ active_orders[j].Scheduled
          /\ active_orders[j].Actual[SummedColumn] = active_orders[j].MAX_CC
          /\ ~active_orders[k].Scheduled
          /\ active_orders[k].Actual[SummedColumn] < active_orders[k].MAX_CC

RECURSIVE DollarsUpTo(_)
DollarsUpTo(n) == IF n = 0 THEN 0 ELSE DollarsUpTo(n - 1) + scenario_dollars[n]

C10_ScenarioOrderIrrelevant ==
    cf_pc = "average" =>
        /\ average_dollar_total =
               after_scenarios(active_orders, IdentityOrder(weather_scenarios),
                               weather_scenarios, min_latitude, max_latitude).total
        /\ \A s \in 1..weather_scenarios :
               scenario_dollars[s] =
                   after_scenarios(active_orders, << s >>, 1,
                                   min_latitude, max_latitude).total

\* A call that visited the columns in another order than 0, 1, ..., and whose
\* columns earn different amounts from different winners
C10_Witness ==
    /\ cf_pc = "average"
    /\ scenario_order # IdentityOrder(weather_scenarios)
    /\ \E s, t \in 1..weather_scenarios :
          /\ scenario_dollars[s] > scenario_dollars[t]
          /\ scenario_dollars[t] > 0

\* The extrema of the checked curve on the grid 0..49
Grid == 0..49
MaxVal == CHOOSE v \in { func[x] : x \in Grid } : \A x \in Grid : func[x] <= v
MinVal == CHOOSE v \in { func[x] : x \in Grid } : \A x \in Grid : v <= func[x]

\* C3 as claimed: with over = max(0, max_val - 100) and under = max(0, -min_val)
\* curve_check returns ceil((over^2 + under^2)/2), 1 when both are 0; a curve
\* with max_val = 150 and min_val = 0 gets 1250.
C3_AsClaimed ==
    cf_pc = "checked" =>
        LET over  == IF MaxVal > 100 * Resolution THEN MaxVal - 100 * Resolution ELSE 0
            under == IF MinVal < 0 THEN -MinVal ELSE 0
            sum   == over * over + under * under
            unit  == 2 * Resolution * Resolution
        IN  /\ (over = 0 /\ under = 0) => multiplyer = 1
            /\ (over # 0 \/ under # 0) =>
                   /\ unit * multiplyer >= sum
                   /\ unit * (multiplyer - 1) < sum
            /\ (MaxVal = 150 * Resolution /\ MinVal = 0) => multiplyer = 1250

\* C3 as amended: curve_check returns ceil((M^2 + m^2)/2) with
\* M = max_val - 100 when max_val > 100 and 1 otherwise, m = -min_val when
\* min_val < 0 and 1 otherwise; a curve with max_val = 150 and min_val = 0
\* gets 1251.
C3_PenaltyCountsOneForTheSideInRange ==
    cf_pc = "checked" =>
        LET M    == IF MaxVal > 100 * Resolution
                    THEN MaxVal - 100 * Resolution ELSE Resolution
            m    == IF MinVal < 0 THEN -MinVal ELSE Resolution
            sum  == M * M + m * m
            unit == 2 * Resolution * Resolution
        IN  /\ unit * multiplyer >= sum
            /\ unit * (multiplyer - 1) < sum
            /\ (MaxVal = 150 * Resolution /\ MinVal = 0) => multiplyer = 1251

\* The curve of the claim's example, checked
C3_Witness ==
    /\ cf_pc = "checked"
    /\ MaxVal = 150 * Resolution
    /\ MinVal = 0
    /\ multiplyer = 1251

\* C4: curve_check returns an integer >= 1, and exactly 1 when every sampled
\* value lies within [0, 100].
C4_MultiplierAtLeastOne ==
    cf_pc = "checked" =>
        /\ multiplyer \in Nat
        /\ multiplyer >= 1
        /\ (\A x \in Grid : 0 <= func[x] /\ func[x] <= 100 * Resolution)
               => multiplyer = 1

\* A checked curve that spans the whole admissible range, 0 to 100
C4_Witness ==
    /\ cf_pc = "checked"
    /\ \A x \in Grid : 0 <= func[x] /\ func[x] <= 100 * Resolution
    /\ MinVal = 0
    /\ MaxVal = 100 * Resolution
    /\ multiplyer = 1

\* The starting Cases whose curve fails the check, and the rows minimize was
\* called for
\* curve_check of the curve of every coefficient vector a run meets
MultiplierTable ==
    [ c \in SearchPoints \cup StartCoefs |-> curve_check(produce_curve(c)) ]

\* The penalty multiplier of the curve of a coefficient vector
MultiplierOf(coefs) == MultiplierTable[coefs]

StartingCases == 1..initial_case_count
InvalidStart(i) == MultiplierOf(case_inputs[i]) # 1
Optimized(j) == \E r \in searched : r.row = j

\* C5: a starting Case whose curve fails the validity check is skipped: in the
\* step that handles it no search is invoked, no error is raised, its row is
\* left alone and the loop moves on to the next starting Case.
C5_InvalidStartIsSkipped ==
    [][ (run_pc = "cases" /\ InvalidStart(starting_point)) =>
            /\ searched' = searched
            /\ result' = result
            /\ case_results' = case_results
            /\ run_pc' # "raised"
            /\ starting_point' = starting_point + 1 ]_vars

\* The loop stands at the second Case after skipping the first, whose curve
\* 39 - x reaches -10
C5_Witness ==
    /\ run_pc = "cases"
    /\ starting_point = 2
    /\ case_inputs[1] = TooLow
    /\ InvalidStart(1)
    /\ searched = {}
    /\ case_results[1] = [ coefs |-> TooLow, Total |-> 0 ]

\* C6: in the final results table the row of a Case skipped as invalid differs
\* from the row of every Case that was optimized.
C6_SkippedRowIsDistinct ==
    run_pc = "done" =>
        \A i \in StartingCases : \A j \in 1..Len(case_results) :
            (InvalidStart(i) /\ ~Optimized(i) /\ Optimized(j)) =>
                case_results[i] # case_results[j]

\* The row the last search was made for
LastSearchedRow == SetMax({ r.row : r \in searched })

\* C7: a search that ends without success aborts the run unless it ran out of
\* budget, be it iterations or function evaluations; then the run goes on and
\* the point and value returned are stored as the Case's result.
C7_BudgetExhaustionTolerated ==
    /\ run_pc = "raised" =>
           result.message \notin { SuccessMessage, MaxFevMessage, MaxIterMessage }
    /\ (searched # {} /\ result.message \in { MaxFevMessage, MaxIterMessage }) =>
           /\ run_pc # "raised"
           /\ case_results[LastSearchedRow] =
                  [ coefs |-> result.x, Total |-> rounded_fun(result.fun) ]

\* C8: a run over N >= 1 starting Cases that completes ends with N + 1 rows,
\* rows 1..N those of the starting Cases and row N + 1 that of one refinement
\* search started from the coefficients of the first row with the least Total
\* among rows 1..N.
C8_RefinementFromFirstMinimum ==
    run_pc = "done" =>
        /\ Len(case_results) = initial_case_count + 1
        /\ Len(case_inputs) = initial_case_count + 1
        /\ \A r \in searched :
              r.row \in StartingCases => r.x0 = case_inputs[r.row]
        /\ \E i \in StartingCases :
              /\ \A j \in StartingCases :
                    case_results[i].Total <= case_results[j].Total
              /\ \A j \in 1..(i - 1) :
                    case_results[j].Total > case_results[i].Total
              /\ case_inputs[initial_case_count + 1] = case_results[i].coefs
              /\ \A r \in searched :
                    r.row = initial_case_count + 1 => r.x0 = case_results[i].coefs
        /\ Optimized(initial_case_count + 1)

\* A completed run in which two starting rows with different coefficients tie
\* for the least Total, the refinement started from the first of them and
\* ended with a Total below zero
C8_Witness ==
    /\ run_pc = "done"
    /\ \E i, j \in StartingCases :
          /\ i < j
          /\ case_results[i].Total = case_results[j].Total
          /\ case_results[i].coefs # case_results[j].coefs
          /\ \A k \in StartingCases : case_results[i].Total <= case_results[k].Total
          /\ case_inputs[initial_case_count + 1] = case_results[i].coefs
    /\ case_results[initial_case_count + 1].Total < 0

\* The grid cell find_cloud_cover looks row i up in
RowCell(i) ==
    << round_quarter(active_orders[i].Latitude),
       round_quarter(active_orders[i].Longitude) >>

\* A PWOT csv has been read that lacks the cell of some order
LookupMissed ==
    /\ weather_type = "PWOT"
    /\ cloud_cover # << >>
    /\ \E i \in Rows : RowCell(i) \notin DOMAIN cloud_cover

\* C11: in PWOT mode, when the csv read holds no cell for an order's rounded
\* latitude and longitude, the miss is printed and the preparation does not
\* raise: populate_actual_cc completes and the run goes on.
C11_LookupMissIsSurvived ==
    LookupMissed =>
        /\ \E i \in Rows : RowCell(i) \notin DOMAIN cloud_cover /\ RowCell(i) \in printed
        /\ prep_pc # "raised"

\* The dollar value the csv gave row i
LoadedDollar(i) == RawRow(i, active_orders[i].Cust_Num,
                          active_orders[i].Task_Pri).DollarPerSquare

\* Row i has the dollar value its customer and priority call for
DollarResolved(i) ==
    LET row == active_orders[i]
    IN  /\ ~isnan(row.DollarPerSquare)
        /\ row.DollarPerSquare \in Nat
        /\ IF row.Cust_Num = HighVolumeCustomer
           THEN row.Task_Pri \in DOMAIN MCP_priority_to_dollar_map =>
                    row.DollarPerSquare = MCP_priority_to_dollar_map[row.Task_Pri]
           ELSE IF row.Cust_Num \in DOMAIN zero_dollar_customer_values
                THEN row.DollarPerSquare =
                         zero_dollar_customer_values[row.Cust_Num]
                ELSE row.DollarPerSquare = LoadedDollar(i)

\* C12: once populate_dollar_values has run, every order has one defined
\* numeric DollarPerSquare: the flat value of its customer, the value keyed by
\* Task_Pri for customer 306, or else the loaded one; also for a customer 306
\* order whose Task_Pri is not in the priority-to-dollar table.
C12_EveryDollarResolved ==
    prep_pc = "ready" => \A i \in Rows : DollarResolved(i)

Columns == 1..weather_scenarios

\* C13: with a configured uncertainty of 0, once prepare_dataframe is through,
\* the predicted cloud cover equals the actual cloud cover for every order and
\* every scenario, whatever the weather type.
C13_NoUncertaintyNoPerturbation ==
    (prep_pc = "ready" /\ predicted_cc_uncertainty = 0) =>
        \A i \in Rows : \A s \in Columns :
            /\ Len(active_orders[i].Predicted) = weather_scenarios
            /\ active_orders[i].Predicted[s] = active_orders[i].Actual[s]

\* A prepared table with uncertainty 0 whose actual cloud cover is not 0
\* everywhere
C13_Witness ==
    /\ prep_pc = "ready"
    /\ predicted_cc_uncertainty = 0
    /\ weather_scenarios > 0
    /\ weather_type \in { "random", "PWOT" }
    /\ \E i \in Rows : \E s \in Columns :
          /\ active_orders[i].Actual[s] > 0
          /\ active_orders[i].Predicted[s] = active_orders[i].Actual[s]

\* The vector coefs with 0 at index i
ZeroAt(coefs, i) == [ coefs EXCEPT ![i] = 0 ]

\* C14: for a coefficient vector with nan at index i, the curve produce_curve
\* returns gives every dollar value the priority it gets from the same vector
\* with 0 at index i.
C14_NaNCoefficientIsZero ==
    cf_pc = "produced" =>
        \A i \in 1..7 :
            isnan(coefficients[i]) =>
                \A x \in CurveArgs : func[x] = Curve(ZeroAt(coefficients, i), x)

\* A curve produced from a vector with nan at a term that is not 0 at some x
C14_Witness ==
    /\ cf_pc = "produced"
    /\ \E i \in 1..7 :
          /\ isnan(coefficients[i])
          /\ \E x \in CurveArgs :
                Curve(ZeroAt(coefficients, i), x) #
                    Curve([ coefficients EXCEPT ![i] = 1 ], x)

\* The orders csv has no rows, or the configured scenario count is 0
InputDefect == active_orders = << >> \/ weather_scenarios = 0

\* No row of the results table holds the outcome of a search
NothingRecorded ==
    /\ result = NoResult
    /\ Len(case_results) <= initial_case_count
    /\ \A i \in 1..Len(case_results) :
          case_results[i] = [ coefs |-> case_inputs[i], Total |-> 0 ]

\* C15: with an empty order table or 0 scenarios the run is fatal: the
\* construction raises on the empty table, the first search invoked raises
\* (whether its Case is a starting Case with a valid curve or the refinement
\* after skips only), DONE is never reached and no search result is recorded.
C15_InputDefectIsFatal ==
    InputDefect =>
        /\ run_pc # "done"
        /\ NothingRecorded
        /\ active_orders = << >> => (run_pc = "off" /\ prep_pc \in { "load", "raised" })
        /\ searched # {} => run_pc = "raised"
        /\ run_pc = "refine" => \A i \in StartingCases : InvalidStart(i)

\* A run with 0 scenarios and only invalid starting curves that raised in the
\* refinement search
C15_Witness ==
    /\ weather_scenarios = 0
    /\ run_pc = "raised"
    /\ searched = { [ row |-> initial_case_count + 1, x0 |-> TooLow ] }
    /\ NothingRecorded

\* The last search returned a result that was stored
LastResultStored ==
    /\ searched # {}
    /\ result # NoResult
    /\ run_pc # "raised"

\* The objective at the point the last search returned, computed anew: minus
\* the summed dollars over scenarios times multiplier
ObjectiveAtResult ==
    cost_value(active_orders, result.x, min_latitude, max_latitude,
               weather_scenarios)

\* C16 as stated: the Total stored for an optimized Case is the negation of
\* the objective value the search returned (the de-negated revenue), so that
\* more revenue means a larger Total.
C16_AsClaimed ==
    LastResultStored =>
        /\ case_results[LastSearchedRow].Total = -rounded_fun(result.fun)
        /\ case_results[LastSearchedRow].Total >= result.fun.jitter

\* C16, amended: the Total stored for an optimized Case is the objective value
\* the search returned, rounded: the negated revenue (over scenarios and
\* multiplier) plus the jitter, so that more revenue means a smaller Total.
C16_TotalIsNegatedRevenue ==
    LastResultStored =>
        /\ case_results[LastSearchedRow].Total =
               round2(result.fun.value.num, result.fun.value.den)
                   + result.fun.jitter
        /\ result.fun.value.num <= 0
        /\ case_results[LastSearchedRow].Total <= result.fun.jitter

\* A stored Total below zero for a point that earns dollars
C16_Witness ==
    /\ LastResultStored
    /\ ObjectiveAtResult.num < 0
    /\ case_results[LastSearchedRow].Total < 0
    /\ case_results[LastSearchedRow].coefs = result.x

\* How far row i lies above the nearest band edge min_latitude + 2k at or
\* below it
AboveEdge(i) == (active_orders[i].Latitude - min_latitude) % (2 * LatRes)

\* Row i lies strictly between an edge L and L + 1
Schedulable(i) == AboveEdge(i) > 0 /\ AboveEdge(i) < LatRes

\* Rows i and j lie above the same edge
SameEdge(i, j) ==
    active_orders[i].Latitude - AboveEdge(i) =
        active_orders[j].Latitude - AboveEdge(j)

TotalScoreIn(i, w) ==
    (CCRes - active_orders[i].Predicted[w]) * active_orders[i].Score

\* Row i is the order its band schedules in scenario w: none of the band
\* scores higher, and none before it scores as high
WinnerIn(i, w) ==
    /\ Schedulable(i)
    /\ \A j \in Rows :
          (Schedulable(j) /\ SameEdge(i, j)) =>
              \/ TotalScoreIn(i, w) > TotalScoreIn(j, w)
              \/ (TotalScoreIn(i, w) = TotalScoreIn(j, w) /\ i <= j)

\* C18: at the moment cost_function calls total_dollars for a scenario, the
\* Scheduled flag is true for exactly the band winners by that scenario's
\* Total_Score; no flag of an earlier scenario or an earlier call is left.
C18_FlagsAreThisScenariosWinners ==
    cf_pc = "dollars" =>
        \A i \in Rows :
            /\ active_orders[i].Total_Score = TotalScoreIn(i, weather_column)
            /\ active_orders[i].Scheduled <=> WinnerIn(i, weather_column)

\* The second scenario of a call is about to be summed, and the order that
\* won a band in the first scenario is not scheduled now
C18_Witness ==
    /\ cf_pc = "dollars"
    /\ pos = 2
    /\ \E i \in Rows :
          /\ WinnerIn(i, scenario_order[1])
          /\ ~WinnerIn(i, weather_column)
          /\ ~active_orders[i].Scheduled

\* The vector the last search started from
LastSearchX0 == (CHOOSE r \in searched : r.row = LastSearchedRow).x0

\* C19 as stated: the multiplier in the value a search returns is the one of
\* the Case's starting curve, whatever point the value belongs to.
C19_AsClaimed ==
    (searched # {} /\ result # NoResult) =>
        result.fun.value.den = weather_scenarios * MultiplierOf(LastSearchX0)

\* C19, amended: cost_function computes the multiplier anew at every
\* evaluation from the coefficient vector it is given, so the value a search
\* returns for its point carries the multiplier of that point's curve; the
\* check of the starting curve only decides whether the Case is searched.
C19_MultiplierOfEvaluatedVector ==
    (searched # {} /\ result # NoResult) =>
        /\ result.fun.value.den = weather_scenarios * MultiplierOf(result.x)
        /\ LastSearchedRow \in StartingCases => MultiplierOf(LastSearchX0) = 1

\* A search from a valid starting curve returned a point whose curve leaves
\* [0, 100], with that point's multiplier in the value
C19_Witness ==
    /\ searched # {}
    /\ result # NoResult
    /\ MultiplierOf(LastSearchX0) = 1
    /\ MultiplierOf(result.x) > 1
    /\ result.fun.value.den = weather_scenarios * MultiplierOf(result.x)
    /\ result.fun.value.num < 0

\* The run has ended: DONE, or an error raised in the run or the construction
RunEnded == run_pc \in { "done", "raised" } \/ prep_pc = "raised"

\* C20: a run follows the state machine. After an error or DONE nothing more
\* happens; the loop goes through the starting Cases one by one in table
\* order; a search is started for a starting Case only when the loop is at it
\* and its curve is valid; the refinement search starts only when every
\* starting Case was rejected or searched without a fatal outcome; and DONE
\* is entered from the refinement alone.
C20_RunFollowsStateMachine ==
    [][ /\ ~RunEnded
        /\ starting_point' \in { starting_point, starting_point + 1 }
        /\ starting_point' = starting_point + 1 =>
               (run_pc = "cases" /\ starting_point \in StartingCases)
        /\ \A r \in searched' \ searched :
              IF r.row \in StartingCases
              THEN /\ run_pc = "cases"
                   /\ r.row = starting_point
                   /\ r.x0 = case_inputs[r.row]
                   /\ ~InvalidStart(r.row)
                   /\ \A i \in 1..(r.row - 1) : Optimized(i) \/ InvalidStart(i)
              ELSE /\ run_pc = "refine"
                   /\ starting_point = initial_case_count + 1
                   /\ \A i \in StartingCases : Optimized(i) \/ InvalidStart(i)
        /\ run_pc' = "refine" =>
               (run_pc = "cases" /\ starting_point = initial_case_count)
        /\ run_pc' = "done" => run_pc = "refine"
        /\ run_pc' = "cases" => run_pc = "cases" ]_vars

\* The search of the first of several starting Cases ended fatally: the loop
\* stands still at it and nothing else was searched
C20_Witness ==
    /\ run_pc = "raised"
    /\ initial_case_count > 1
    /\ starting_point = 1
    /\ searched = { [ row |-> 1, x0 |-> case_inputs[1] ] }
    /\ result.message = OtherMessage
    /\ Len(case_results) = initial_case_count

\* C21: once prepare_dataframe is through, every order has for every scenario
\* an actual and a predicted cloud cover that are fractions in [0, 1], in
\* every weather type (the PWOT csv holding percentages 0..100) and whatever
\* the draws of the perturbation.
C21_CloudCoverIsAFraction ==
    prep_pc = "ready" =>
        \A i \in Rows :
            /\ Len(active_orders[i].Actual) = weather_scenarios
            /\ Len(active_orders[i].Predicted) = weather_scenarios
            /\ \A s \in Columns :
                  /\ active_orders[i].Actual[s] \in 0..100
                  /\ active_orders[i].Predicted[s] \in 0..100

\* A prepared PWOT table in which the perturbation took one prediction below
\* 0 and another above 1, both cut back, and an actual cover of 1
C21_Witness ==
    /\ prep_pc = "ready"
    /\ weather_type = "PWOT"
    /\ predicted_cc_uncertainty > 0
    /\ \E i, j, k \in Rows : \E s, t, u \in Columns :
          /\ active_orders[i].Actual[s] > 0
          /\ active_orders[i].Predicted[s] = 0
          /\ active_orders[j].Actual[t] < 100
          /\ active_orders[j].Predicted[t] = 100
          /\ active_orders[k].Actual[u] = 100

\* C22: for a coefficient vector with inf or -inf at index i, the curve
\* produce_curve returns gives every dollar value the priority it gets from
\* the same vector with 0 at index i.
C22_InfCoefficientIsZero ==
    cf_pc = "produced" =>
        \A i \in 1..7 :
            isinf(coefficients[i]) =>
                \A x \in CurveArgs : func[x] = Curve(ZeroAt(coefficients, i), x)

\* C23: the score falls strictly as the priority rises: of two orders the one
\* with the lower priority has the higher Score, also for priorities below 0
\* and above 100, which get scores above 100 and below 0 like any other.
C23_ScoreStrictlyDecreasing ==
    cf_pc = "scored" =>
        \A i, j \in Rows :
            active_orders[i].New_Priority < active_orders[j].New_Priority =>
                active_orders[i].Score > active_orders[j].Score

\* Scored orders with a priority below 0 and with two different priorities
\* above 100
C23_Witness ==
    /\ cf_pc = "scored"
    /\ \E i, j \in Rows :
          /\ active_orders[i].New_Priority > pri_max * Resolution
          /\ active_orders[j].New_Priority > active_orders[i].New_Priority
          /\ active_orders[j].Score < active_orders[i].Score
    /\ \E i, j \in Rows :
          /\ active_orders[i].New_Priority < 0
          /\ active_orders[j].New_Priority > pri_max * Resolution
          /\ active_orders[i].Score > ScoreTop * Resolution

\* The columns of the table that load_data and prepare_dataframe filled
InputColumns(table) ==
    [ i \in 1..Len(table) |->
        [ Latitude |-> table[i].Latitude, Longitude |-> table[i].Longitude,
          Cust_Num |-> table[i].Cust_Num, Task_Pri |-> table[i].Task_Pri,
          DollarPerSquare |-> table[i].DollarPerSquare,
          MAX_CC |-> table[i].MAX_CC, Actual |-> table[i].Actual,
          Predicted |-> table[i].Predicted ] ]

\* The columns cost_function computes
DerivedColumns(table) ==
    [ i \in 1..Len(table) |->
        [ New_Priority |-> table[i].New_Priority, Score |-> table[i].Score,
          Total_Score |-> table[i].Total_Score,
          Scheduled |-> table[i].Scheduled ] ]

ColumnNames ==
    { "Latitude", "Longitude", "Cust_Num", "Task_Pri", "DollarPerSquare",
      "MAX_CC", "Actual", "Predicted", "New_Priority", "Score", "Total_Score",
      "Scheduled" }

\* C24: no step of any sequence of cost_function calls changes a loaded
\* column (Latitude, Longitude, Cust_Num, Task_Pri, DollarPerSquare, MAX_CC,
\* the Actual and the Predicted columns), the number of rows or the set of
\* columns; what a step writes is in New_Priority, Score, Total_Score and
\* Scheduled.
C24_LoadedColumnsAreKept ==
    [][ /\ InputColumns(active_orders)' = InputColumns(active_orders)
        /\ Len(active_orders') = Len(active_orders)
        /\ \A i \in 1..Len(active_orders') :
              DOMAIN active_orders'[i] = ColumnNames
        /\ << min_latitude, max_latitude >>' = << min_latitude, max_latitude >>
      ]_vars

\* A call has returned with every derived column written, the loaded columns
\* being those of a table Orders.__init__ leaves
C24_Witness ==
    /\ cf_pc = "done"
    /\ \E i \in Rows :
          /\ active_orders[i].Scheduled
          /\ active_orders[i].New_Priority > pri_max * Resolution
          /\ active_orders[i].Score < 0
          /\ active_orders[i].Total_Score < 0
    /\ \E seed \in WeatherSeeds :
          InputColumns(active_orders) =
              InputColumns([ i \in Rows |->
                               NewRow(active_orders[i].Latitude,
                                      active_orders[i].DollarPerSquare, i, seed,
                                      weather_scenarios) ])

\* The table with the derived columns as add_columns left them
Unevaluated(table) ==
    [ i \in 1..Len(table) |->
        [ table[i] EXCEPT !.New_Priority = 0, !.Score = 0, !.Total_Score = 0,
                          !.Scheduled = FALSE ] ]

\* What the call of evaluation w returns before the jitter when it runs alone
AloneValue(w) ==
    cost_value(Unevaluated(active_orders), evaluations[w].coefficients,
               min_latitude, max_latitude, weather_scenarios)

\* C25: of two cost_function calls with different coefficients whose steps
\* interleave, each on its own copy of the order table, each returns in
\* every interleaving the revenue it returns when run alone, and the table
\* they were copied from is left as loaded. (On one shared table some
\* interleaving makes a call return another revenue: C25_Witness.)
C25_OwnCopiesIsolate ==
    \A w \in DOMAIN evaluations :
        evaluations[w].own =>
            /\ evaluations[w].pc = "done" =>
                   evaluations[w].returned = AloneValue(w)
            /\ active_orders = Unevaluated(active_orders)

\* Two calls on one shared table have both returned, and one of them
\* returned a revenue it does not return when run alone
C25_Witness ==
    /\ DOMAIN evaluations = Workers
    /\ \A w \in Workers : ~evaluations[w].own /\ evaluations[w].pc = "done"
    /\ evaluations[1].coefficients # evaluations[2].coefficients
    /\ \E w \in Workers :
          evaluations[w].returned.num # AloneValue(w).num

\* Every value of the curve of coefs sampled on the grid 0..49 lies in
\* [0, 100]
SampledInRange ==
    [ c \in StartCoefs |->
        \A x \in 0..(GridLen - 1) :
            /\ produce_curve(c)[x] >= 0
            /\ produce_curve(c)[x] <= pri_max * Resolution ]

\* C26: a search is invoked for a starting Case only if every value of its
\* starting curve sampled on the grid 0..49 lies within [0, 100]: a curve
\* with a sampled value above 100 or below 0 has a multiplier above 1 and is
\* skipped. (Stated for the runs in which no search has raised.)
C26_OnlyInRangeStartsAreSearched ==
    run_pc # "raised" =>
        \A r \in searched :
            r.row \in StartingCases =>
                /\ SampledInRange[r.x0]
                /\ \A i \in 1..(r.row - 1) :
                      ~SampledInRange[case_inputs[i]] =>
                          (MultiplierOf(case_inputs[i]) > 1 /\ ~Optimized(i))

\* The row Total.idxmin() picks among the rows of the starting Cases
BestRow == idxmin_total(SubSeq(case_results, 1, initial_case_count))

\* C27: when at least one starting Case was optimized, the refinement search
\* is seeded from the row of an optimized Case, never from the row of a Case
\* skipped as invalid, whatever objective values the searches achieved.
C27_RefinementSeedIsOptimized ==
    (Optimized(initial_case_count + 1)
        /\ \E i \in StartingCases : Optimized(i)) =>
        /\ Optimized(BestRow)
        /\ ~InvalidStart(BestRow)
        /\ case_inputs[initial_case_count + 1] = case_results[BestRow].coefs

\* C28: of two orders of one band with equal Score, the one with the
\* strictly higher predicted cloud cover in the scenario is not the one
\* schedule_orders schedules, whatever priority the curve gave them.
C28_CloudierOfEqualsNotScheduled ==
    cf_pc = "dollars" =>
        \A i, j \in Rows :
            ( /\ Schedulable(i) /\ Schedulable(j) /\ SameEdge(i, j)
              /\ active_orders[i].Score = active_orders[j].Score
              /\ active_orders[i].Predicted[weather_column] >
                     active_orders[j].Predicted[weather_column] ) =>
                ~active_orders[i].Scheduled

\* C29: in any sequence of cost_function calls on the one order table, the
\* value a call computes before the jitter depends only on its coefficient
\* vector and the loaded orders and weather: two calls with the same vector
\* compute the same value whatever was evaluated in between, and it is the
\* value computed on the table as loaded, with no derived column and no
\* schedule flag of an earlier call.
C29_ValueDependsOnlyOnInputs ==
    /\ \A k, l \in DOMAIN evaluated :
          evaluated[k].coefficients = evaluated[l].coefficients =>
              evaluated[k].value = evaluated[l].value
    /\ (cf_pc = "done" /\ evaluated # << >>) =>
          evaluated[Len(evaluated)].value =
              cost_value(Unevaluated(active_orders),
                         evaluated[Len(evaluated)].coefficients,
                         min_latitude, max_latitude, weather_scenarios)

\* A vector was evaluated, then another vector with another value, then the
\* first vector again
C29_Witness ==
    /\ Len(evaluated) = 3
    /\ evaluated[3].coefficients = evaluated[1].coefficients
    /\ evaluated[2].coefficients # evaluated[1].coefficients
    /\ evaluated[2].value # evaluated[1].value
    /\ evaluated[3].value = evaluated[1].value
    /\ evaluated[1].value.num < 0

ScheduledRows == { i \in Rows : active_orders[i].Scheduled }

\* The bands of the loop that hold no candidate order
EmptyBands == { L \in BandEdges : \A i \in Rows : ~InBand(i, L) }

\* C30: on every order table the band loop of schedule_orders ends after
\* exactly ceil((max_latitude - min_latitude + 1) / 2) iterations; a band
\* without candidate orders sets no Scheduled flag, so that right after
\* schedule_orders the scheduled orders are one per band that has
\* candidates, and they are never more than the iterations.
C30_BandLoopIterations ==
    cf_pc = "dollars" =>
        LET iterations == band_iterations(min_latitude, max_latitude)
        IN  /\ iterations =
                   CeilDiv(max_latitude - min_latitude + 1 * LatRes,
                           BandStep * LatRes)
            /\ iterations = Cardinality(BandEdges)
            /\ \A L \in EmptyBands : \A i \in ScheduledRows : ~InSlab(i, L)
            /\ Cardinality(ScheduledRows) =
                   Cardinality(BandEdges \ EmptyBands)
            /\ Cardinality(ScheduledRows) <= iterations

\* schedule_orders has run over two bands, one of them without candidates,
\* and scheduled one order
C30_Witness ==
    /\ cf_pc = "dollars"
    /\ band_iterations(min_latitude, max_latitude) = 2
    /\ Cardinality(EmptyBands) = 1
    /\ Cardinality(ScheduledRows) = 1

====
